---- MODULE Spec2Model ----
(***************************************************************************)
(* Model of the EQ-platform sketch: the rotary-encoder menu, the edit      *)
(* mode, the motor run state and the speed configuration kept in EEPROM.   *)
(* One loop() iteration is a sequence of steps: the debouncer poll, the    *)
(* press handler, the rotate handler, and then either the blink check     *)
(* (edit mode) or runTheStepper (normal mode).                             *)
(***************************************************************************)
EXTENDS Integers, FiniteSets, Sequences, TLC

VARIABLES
    pc,                          \* position in setup()/loop()
    clkFell,                     \* debouncerClk.fell() of this iteration, not yet handled
    now,                         \* millis()
    editMode,
    lastUpdateEditModeScreen,
    editModeBlinkDark,
    stepperTrackingSpeed,
    homeSpeed,
    initialStepperTrackingSpeed,
    initialHomeSpeed,
    motorRunning,
    currentPageIndex,
    eeprom,                      \* EEPROM cells 0..3
    stepperSpeed,                \* the speed last given to stepper.setSpeed
    last                         \* the step just taken: its inputs, the state it started from, its calls

vars == <<pc, clkFell, now, editMode, lastUpdateEditModeScreen, editModeBlinkDark,
          stepperTrackingSpeed, homeSpeed, initialStepperTrackingSpeed, initialHomeSpeed,
          motorRunning, currentPageIndex, eeprom, stepperSpeed, last>>

-----------------------------------------------------------------------------
(* Bounds of the exploration *)

\* an edit-mode rotation is explored only while its result stays within
\* MaxDrift of one of the speed anchors (the clamp limits and the defaults)
MaxDrift == 1
\* millis() is explored up to MaxTime
MaxTime == 600

(* Program constants *)
MinSpeed == 1
MaxSpeed == 1000
DefaultTrackingSpeed == 1
DefaultHomeSpeed == 100
BlinkInterval == 300
SetupSpeed == 100
stepper_speed_address == 0
home_speed_address == 2
InitialPage == 3
CleanPages == 4
DirtyPages == 5
PageAfterSave == 0
EraseWord == 65535

\* the time that passes between two loop iterations, in ms
TickSteps == {0, 150}

\* EEPROM contents at power-up, as <<tracking word, home word>>
EepromSeeds == { <<65535, 65535>>, <<1000, 1>>, <<0, 1001>> }

-----------------------------------------------------------------------------
(* Integer widths *)

toUint8_wide(x) == x

toUint8(x) == x % 256

toInt16(x) == LET w == x % 65536 IN IF w >= 32768 THEN w - 65536 ELSE w

\* unsigned long subtraction a - b (mod 2^32), for a, b in 0 .. 2^31 - 1
subUint32(a, b) == IF a >= b THEN a - b ELSE ((a - b) + 2147483647) + 2147483647 + 2

-----------------------------------------------------------------------------
(* EEPROM *)

writeIntIntoEEPROM_lowFirst(rom, address, number) ==
    [rom EXCEPT ![address] = number % 256,
                ![address + 1] = (number \div 256) % 256]

\* writeIntIntoEEPROM: high byte at address, low byte at address + 1
writeIntIntoEEPROM(rom, address, number) ==
    [rom EXCEPT ![address] = (number \div 256) % 256,
                ![address + 1] = number % 256]

\* the 16-bit word read back from address (high byte first)
readWord(rom, address) == rom[address] * 256 + rom[address + 1]

romOf(seed) ==
    writeIntIntoEEPROM(writeIntIntoEEPROM([a \in 0..3 |-> 255],
                                          stepper_speed_address, seed[1]),
                       home_speed_address, seed[2])

readSpeedConfigFromEeprom_perField(rom) ==
    LET trackingSpeedValue == readWord(rom, stepper_speed_address)
        homeSpeedValue == readWord(rom, home_speed_address)
        t == IF trackingSpeedValue # EraseWord
             THEN toInt16(trackingSpeedValue) ELSE DefaultTrackingSpeed
        h == IF homeSpeedValue # EraseWord
             THEN toInt16(homeSpeedValue) ELSE DefaultHomeSpeed
    IN [tracking |-> t, home |-> h, initialTracking |-> t, initialHome |-> h]

\* readSpeedConfigFromEeprom: the working and the saved values after load
readSpeedConfigFromEeprom(rom) ==
    LET trackingSpeedValue == readWord(rom, stepper_speed_address)
        homeSpeedValue == readWord(rom, home_speed_address)
        valid == trackingSpeedValue # EraseWord /\ homeSpeedValue # EraseWord
        t == IF valid THEN toInt16(trackingSpeedValue) ELSE DefaultTrackingSpeed
        h == IF valid THEN toInt16(homeSpeedValue) ELSE DefaultHomeSpeed
    IN [tracking |-> t, home |-> h, initialTracking |-> t, initialHome |-> h]

saveSpeedConfiguration_partial(rom, t, h) ==
    [rom |-> writeIntIntoEEPROM(writeIntIntoEEPROM(rom, stepper_speed_address, t),
                                home_speed_address, h),
     initialTracking |-> t,
     initialHome |-> initialHomeSpeed]

\* saveSpeedConfiguration: the EEPROM and the saved values after save
saveSpeedConfiguration(rom, t, h) ==
    [rom |-> writeIntIntoEEPROM(writeIntIntoEEPROM(rom, stepper_speed_address, t),
                                home_speed_address, h),
     initialTracking |-> t,
     initialHome |-> h]

-----------------------------------------------------------------------------
(* Configuration and pages *)

\* the dirty test the sketch repeats in updateMainScreen and encoderRotated
isDirty(t, it, h, ih) == t # it \/ h # ih

maxPage_alwaysSave(t, it, h, ih) == DirtyPages

maxPage_cached(t, it, h, ih) == CleanPages

maxPage(t, it, h, ih) == IF isDirty(t, it, h, ih) THEN DirtyPages ELSE CleanPages

clampSpeed_noLower(v) == IF v > MaxSpeed THEN MaxSpeed ELSE v

clampSpeed_noUpper(v) == IF v < MinSpeed THEN MinSpeed ELSE v

\* the speed clamp of the edit branch of encoderRotated
clampSpeed(v) == IF v < MinSpeed THEN MinSpeed ELSE IF v > MaxSpeed THEN MaxSpeed ELSE v

\* rotate between options: currentPageIndex is a uint8_t
rotatePage_noWrap(page, change, mp) ==
    LET p == toUint8(page + change)
    IN IF p < 1 THEN 1 ELSE IF p > mp THEN mp ELSE p

rotatePage(page, change, mp) ==
    LET p == toUint8(page + change)
    IN IF p < 1 THEN mp ELSE IF p > mp THEN 1 ELSE p

\* the pages on which a press enters edit mode (case 1 and case 2 of encoderPressed)
editPages_withStart == {1, 2, 3}

editPages == {1, 2}

\* DT_PIN high is clockwise
changeOf(dtHigh) == IF dtHigh THEN 1 ELSE -1

-----------------------------------------------------------------------------
(* Motor *)

startStopButtonPressed_fromHoming(motor, t) ==
    [speed |-> t, motor |-> IF motor > 0 THEN 0 ELSE 1]

startStopButtonPressed_noStop(motor, t) ==
    [speed |-> t, motor |-> 1]

startStopButtonPressed(motor, t) ==
    [speed |-> t, motor |-> IF motor # 0 THEN 0 ELSE 1]

returnHomePressed_positive(motor, h) ==
    [speed |-> h, motor |-> -1]

returnHomePressed(motor, h) ==
    [speed |-> -h, motor |-> -1]

editEntryMotor_reverse(motor) == -motor

editEntryMotor_keep(motor) == motor

\* entering edit mode stops the motor
editEntryMotor(motor) == 0

runTheStepper_anySwitch(motor, endLow, homeLow) ==
    IF motor # 0
    THEN IF endLow \/ homeLow
         THEN [motor |-> 0, renders |-> 1, steps |-> 0, polls |-> 1]
         ELSE [motor |-> motor, renders |-> 0, steps |-> 1, polls |-> 1]
    ELSE [motor |-> motor, renders |-> 0, steps |-> 0, polls |-> 0]

runTheStepper_swapped(motor, endLow, homeLow) ==
    IF motor # 0
    THEN IF motor > 0 /\ homeLow
         THEN [motor |-> 0, renders |-> 1, steps |-> 0, polls |-> 1]
         ELSE IF motor < 0 /\ endLow
              THEN [motor |-> 0, renders |-> 1, steps |-> 0, polls |-> 1]
              ELSE [motor |-> motor, renders |-> 0, steps |-> 1, polls |-> 1]
    ELSE [motor |-> motor, renders |-> 0, steps |-> 0, polls |-> 0]

runTheStepper_stepAfterStop(motor, endLow, homeLow) ==
    IF motor # 0
    THEN IF motor > 0 /\ endLow
         THEN [motor |-> 0, renders |-> 1, steps |-> 1, polls |-> 1]
         ELSE IF motor < 0 /\ homeLow
              THEN [motor |-> 0, renders |-> 1, steps |-> 1, polls |-> 1]
              ELSE [motor |-> motor, renders |-> 0, steps |-> 1, polls |-> 1]
    ELSE [motor |-> motor, renders |-> 0, steps |-> 0, polls |-> 0]

runTheStepper_silentStop(motor, endLow, homeLow) ==
    IF motor # 0
    THEN IF motor > 0 /\ endLow
         THEN [motor |-> 0, renders |-> 0, steps |-> 0, polls |-> 1]
         ELSE IF motor < 0 /\ homeLow
              THEN [motor |-> 0, renders |-> 0, steps |-> 0, polls |-> 1]
              ELSE [motor |-> motor, renders |-> 0, steps |-> 1, polls |-> 1]
    ELSE [motor |-> motor, renders |-> 0, steps |-> 0, polls |-> 0]

runTheStepper_noStep(motor, endLow, homeLow) ==
    IF motor # 0
    THEN IF motor > 0 /\ endLow
         THEN [motor |-> 0, renders |-> 1, steps |-> 0, polls |-> 1]
         ELSE IF motor < 0 /\ homeLow
              THEN [motor |-> 0, renders |-> 1, steps |-> 0, polls |-> 1]
              ELSE [motor |-> motor, renders |-> 0, steps |-> 0, polls |-> 1]
    ELSE [motor |-> motor, renders |-> 0, steps |-> 0, polls |-> 0]

\* runTheStepper: the motor state after the poll and the calls made.
\* endLow / homeLow: digitalRead of the switch pin is LOW (switch active)
runTheStepper(motor, endLow, homeLow) ==
    IF motor # 0
    THEN IF motor > 0 /\ endLow
         THEN [motor |-> 0, renders |-> 1, steps |-> 0, polls |-> 1]
         ELSE IF motor < 0 /\ homeLow
              THEN [motor |-> 0, renders |-> 1, steps |-> 0, polls |-> 1]
              ELSE [motor |-> motor, renders |-> 0, steps |-> 1, polls |-> 1]
    ELSE [motor |-> motor, renders |-> 0, steps |-> 0, polls |-> 0]

\* the levels the limit switches can have when runTheStepper looks at them;
\* with the motor stopped no switch is read
switchReadings(motor) == IF motor # 0 THEN BOOLEAN ELSE {FALSE}

checkTimeoutExpired_absolute(currentMillis, lastChange, timeoutDuration) ==
    currentMillis >= timeoutDuration

checkTimeoutExpired(currentMillis, lastChange, timeoutDuration) ==
    subUint32(currentMillis, lastChange) >= timeoutDuration

-----------------------------------------------------------------------------
(* The record of the step just taken *)

snapshot(op, change, endLow, homeLow, renders, steps, polls, writes) ==
    [op |-> op, prevOp |-> last.op, change |-> change, endLow |-> endLow, homeLow |-> homeLow,
     renders |-> renders, steps |-> steps, polls |-> polls, writes |-> writes,
     editMode |-> editMode, page |-> currentPageIndex, motor |-> motorRunning,
     tracking |-> stepperTrackingSpeed, home |-> homeSpeed,
     initialTracking |-> initialStepperTrackingSpeed, initialHome |-> initialHomeSpeed,
     speed |-> stepperSpeed, blinkDark |-> editModeBlinkDark,
     lastUpdate |-> lastUpdateEditModeScreen]

\* the speed values the exploration edits around
SpeedAnchors == {MinSpeed, MaxSpeed, DefaultTrackingSpeed, DefaultHomeSpeed}

InWindow(v) == \E a \in SpeedAnchors : v - a <= MaxDrift /\ a - v <= MaxDrift

-----------------------------------------------------------------------------
(* Initial state: the globals as initialized, any seeded EEPROM *)

Init ==
    /\ pc = "setup"
    /\ clkFell = FALSE
    /\ now = 0
    /\ editMode = FALSE
    /\ lastUpdateEditModeScreen = 0
    /\ editModeBlinkDark = FALSE
    /\ stepperTrackingSpeed = DefaultTrackingSpeed
    /\ homeSpeed = DefaultHomeSpeed
    /\ initialStepperTrackingSpeed = DefaultTrackingSpeed
    /\ initialHomeSpeed = DefaultHomeSpeed
    /\ motorRunning = 0
    /\ currentPageIndex = InitialPage
    /\ \E seed \in EepromSeeds : eeprom = romOf(seed)
    /\ stepperSpeed = 0
    /\ last = [op |-> "boot", prevOp |-> "boot", change |-> 0, endLow |-> FALSE, homeLow |-> FALSE,
               renders |-> 0, steps |-> 0, polls |-> 0, writes |-> 0,
               editMode |-> FALSE, page |-> InitialPage, motor |-> 0,
               tracking |-> DefaultTrackingSpeed, home |-> DefaultHomeSpeed,
               initialTracking |-> DefaultTrackingSpeed, initialHome |-> DefaultHomeSpeed,
               speed |-> 0, blinkDark |-> FALSE, lastUpdate |-> 0]

-----------------------------------------------------------------------------
(* setup() *)

\* the display checked only after the configuration is loaded
setupHalt_afterLoad ==
    /\ pc = "setup"
    /\ pc' = "halted"
    /\ LET cfg == readSpeedConfigFromEeprom(eeprom)
       IN /\ stepperTrackingSpeed' = cfg.tracking
          /\ homeSpeed' = cfg.home
          /\ initialStepperTrackingSpeed' = cfg.initialTracking
          /\ initialHomeSpeed' = cfg.initialHome
    /\ last' = snapshot("halt", 0, FALSE, FALSE, 0, 0, 0, 0)
    /\ UNCHANGED <<clkFell, now, editMode, lastUpdateEditModeScreen, editModeBlinkDark,
                   motorRunning, currentPageIndex, eeprom, stepperSpeed>>

\* display.begin failed: loop forever
setupHalt ==
    /\ pc = "setup"
    /\ pc' = "halted"
    /\ last' = snapshot("halt", 0, FALSE, FALSE, 0, 0, 0, 0)
    /\ UNCHANGED <<clkFell, now, editMode, lastUpdateEditModeScreen, editModeBlinkDark,
                   stepperTrackingSpeed, homeSpeed, initialStepperTrackingSpeed,
                   initialHomeSpeed, motorRunning, currentPageIndex, eeprom, stepperSpeed>>

setup ==
    /\ pc = "setup"
    /\ LET cfg == readSpeedConfigFromEeprom(eeprom)
       IN /\ stepperTrackingSpeed' = cfg.tracking
          /\ homeSpeed' = cfg.home
          /\ initialStepperTrackingSpeed' = cfg.initialTracking
          /\ initialHomeSpeed' = cfg.initialHome
    /\ stepperSpeed' = SetupSpeed
    /\ pc' = "poll"
    /\ last' = snapshot("setup", 0, FALSE, FALSE, 1, 0, 0, 0)
    /\ UNCHANGED <<clkFell, now, editMode, lastUpdateEditModeScreen, editModeBlinkDark,
                   motorRunning, currentPageIndex, eeprom>>

-----------------------------------------------------------------------------
(* loop() *)

\* the debouncer updates at the top of loop(): which events fell, and the time
pollInputs ==
    /\ pc = "poll"
    /\ \E swFell \in BOOLEAN, clk \in BOOLEAN, dt \in TickSteps :
          /\ now + dt <= MaxTime
          /\ now' = now + dt
          /\ clkFell' = clk
          /\ pc' = IF swFell THEN "press" ELSE IF clk THEN "rotate" ELSE "mode"
    /\ last' = snapshot("poll", 0, FALSE, FALSE, 0, 0, 0, 0)
    /\ UNCHANGED <<editMode, lastUpdateEditModeScreen, editModeBlinkDark,
                   stepperTrackingSpeed, homeSpeed, initialStepperTrackingSpeed,
                   initialHomeSpeed, motorRunning, currentPageIndex, eeprom, stepperSpeed>>

afterPress == IF clkFell THEN "rotate" ELSE "mode"

encoderPressed ==
    /\ pc = "press"
    /\ pc' = afterPress
    /\ IF editMode
       THEN /\ editMode' = FALSE
            /\ UNCHANGED <<motorRunning, stepperSpeed, currentPageIndex, eeprom,
                           initialStepperTrackingSpeed, initialHomeSpeed>>
            /\ last' = snapshot("press", 0, FALSE, FALSE, 1, 0, 0, 0)
       ELSE CASE currentPageIndex \in editPages ->
                   /\ editMode' = TRUE
                   /\ motorRunning' = editEntryMotor(motorRunning)
                   /\ UNCHANGED <<stepperSpeed, currentPageIndex, eeprom,
                                  initialStepperTrackingSpeed, initialHomeSpeed>>
                   /\ last' = snapshot("press", 0, FALSE, FALSE, 1, 0, 0, 0)
              [] currentPageIndex = 3 ->
                   LET r == startStopButtonPressed(motorRunning, stepperTrackingSpeed)
                   IN /\ stepperSpeed' = r.speed
                      /\ motorRunning' = r.motor
                      /\ UNCHANGED <<editMode, currentPageIndex, eeprom,
                                     initialStepperTrackingSpeed, initialHomeSpeed>>
                      /\ last' = snapshot("press", 0, FALSE, FALSE, 1, 0, 0, 0)
              [] currentPageIndex = 4 ->
                   LET r == returnHomePressed(motorRunning, homeSpeed)
                   IN /\ stepperSpeed' = r.speed
                      /\ motorRunning' = r.motor
                      /\ UNCHANGED <<editMode, currentPageIndex, eeprom,
                                     initialStepperTrackingSpeed, initialHomeSpeed>>
                      /\ last' = snapshot("press", 0, FALSE, FALSE, 1, 0, 0, 0)
              [] currentPageIndex = 5 ->
                   LET r == saveSpeedConfiguration(eeprom, stepperTrackingSpeed, homeSpeed)
                   IN /\ eeprom' = r.rom
                      /\ initialStepperTrackingSpeed' = r.initialTracking
                      /\ initialHomeSpeed' = r.initialHome
                      /\ currentPageIndex' = PageAfterSave
                      /\ UNCHANGED <<editMode, motorRunning, stepperSpeed>>
                      /\ last' = snapshot("press", 0, FALSE, FALSE, 1, 0, 0, 4)
              [] OTHER ->
                   /\ UNCHANGED <<editMode, motorRunning, stepperSpeed, currentPageIndex,
                                  eeprom, initialStepperTrackingSpeed, initialHomeSpeed>>
                   /\ last' = snapshot("press", 0, FALSE, FALSE, 1, 0, 0, 0)
    /\ UNCHANGED <<clkFell, now, lastUpdateEditModeScreen, editModeBlinkDark,
                   stepperTrackingSpeed, homeSpeed>>

\* a rotation that also stops the motor
encoderRotated_stopsMotor ==
    /\ pc = "rotate"
    /\ pc' = "mode"
    /\ clkFell' = FALSE
    /\ motorRunning' = 0
    /\ \E dtHigh \in BOOLEAN :
          LET change == changeOf(dtHigh)
          IN /\ IF editMode
                THEN CASE currentPageIndex = 1 ->
                            /\ stepperTrackingSpeed' = clampSpeed(stepperTrackingSpeed + change)
                            /\ InWindow(stepperTrackingSpeed')
                            /\ UNCHANGED <<homeSpeed, currentPageIndex>>
                       [] currentPageIndex = 2 ->
                            /\ homeSpeed' = clampSpeed(homeSpeed + change)
                            /\ InWindow(homeSpeed')
                            /\ UNCHANGED <<stepperTrackingSpeed, currentPageIndex>>
                       [] OTHER ->
                            UNCHANGED <<stepperTrackingSpeed, homeSpeed, currentPageIndex>>
                ELSE /\ currentPageIndex' =
                           rotatePage(currentPageIndex, change,
                                      maxPage(stepperTrackingSpeed, initialStepperTrackingSpeed,
                                              homeSpeed, initialHomeSpeed))
                     /\ UNCHANGED <<stepperTrackingSpeed, homeSpeed>>
             /\ last' = snapshot("rotate", change, FALSE, FALSE, 1, 0, 0, 0)
    /\ UNCHANGED <<now, editMode, lastUpdateEditModeScreen, editModeBlinkDark,
                   initialStepperTrackingSpeed, initialHomeSpeed,
                   eeprom, stepperSpeed>>

encoderRotated ==
    /\ pc = "rotate"
    /\ pc' = "mode"
    /\ clkFell' = FALSE
    /\ \E dtHigh \in BOOLEAN :
          LET change == changeOf(dtHigh)
          IN /\ IF editMode
                THEN CASE currentPageIndex = 1 ->
                            /\ stepperTrackingSpeed' = clampSpeed(stepperTrackingSpeed + change)
                            /\ InWindow(stepperTrackingSpeed')
                            /\ UNCHANGED <<homeSpeed, currentPageIndex>>
                       [] currentPageIndex = 2 ->
                            /\ homeSpeed' = clampSpeed(homeSpeed + change)
                            /\ InWindow(homeSpeed')
                            /\ UNCHANGED <<stepperTrackingSpeed, currentPageIndex>>
                       [] OTHER ->
                            UNCHANGED <<stepperTrackingSpeed, homeSpeed, currentPageIndex>>
                ELSE /\ currentPageIndex' =
                           rotatePage(currentPageIndex, change,
                                      maxPage(stepperTrackingSpeed, initialStepperTrackingSpeed,
                                              homeSpeed, initialHomeSpeed))
                     /\ UNCHANGED <<stepperTrackingSpeed, homeSpeed>>
             /\ last' = snapshot("rotate", change, FALSE, FALSE, 1, 0, 0, 0)
    /\ UNCHANGED <<now, editMode, lastUpdateEditModeScreen, editModeBlinkDark,
                   initialStepperTrackingSpeed, initialHomeSpeed, motorRunning,
                   eeprom, stepperSpeed>>

\* the edit-mode branch of loop(): the blink check
blinkCheck ==
    /\ pc = "mode"
    /\ editMode
    /\ pc' = "poll"
    /\ IF checkTimeoutExpired(now, lastUpdateEditModeScreen, BlinkInterval)
       THEN /\ editModeBlinkDark' = ~editModeBlinkDark
            /\ lastUpdateEditModeScreen' = now
            /\ last' = snapshot("blink", 0, FALSE, FALSE, 1, 0, 0, 0)
       ELSE /\ UNCHANGED <<editModeBlinkDark, lastUpdateEditModeScreen>>
            /\ last' = snapshot("blink", 0, FALSE, FALSE, 0, 0, 0, 0)
    /\ UNCHANGED <<clkFell, now, editMode, stepperTrackingSpeed, homeSpeed,
                   initialStepperTrackingSpeed, initialHomeSpeed, motorRunning,
                   currentPageIndex, eeprom, stepperSpeed>>

\* the normal-mode branch of loop(): runTheStepper
normalMode ==
    /\ pc = "mode"
    /\ ~editMode
    /\ pc' = "poll"
    /\ \E endLow \in switchReadings(motorRunning), homeLow \in switchReadings(motorRunning) :
          LET r == runTheStepper(motorRunning, endLow, homeLow)
          IN /\ motorRunning' = r.motor
             /\ last' = snapshot("run", 0, endLow, homeLow, r.renders, r.steps, r.polls, 0)
    /\ UNCHANGED <<clkFell, now, editMode, lastUpdateEditModeScreen, editModeBlinkDark,
                   stepperTrackingSpeed, homeSpeed, initialStepperTrackingSpeed,
                   initialHomeSpeed, currentPageIndex, eeprom, stepperSpeed>>

loop == pollInputs \/ encoderPressed \/ encoderRotated \/ blinkCheck \/ normalMode

Next == setupHalt \/ setup \/ loop

Spec == Init /\ [][Next]_vars

-----------------------------------------------------------------------------
(* Start-up alone, over a wider set of stored words *)

\* the 16-bit words the EEPROM may hold at power-up: zero, in-range values,
\* values above 1000, values with the top bit set, the erase word
LoadWords == {0, 1, 2, 100, 999, 1000, 1001, 32767, 32768, 32769, 65534, 65535}

LoadInit ==
    /\ pc = "setup"
    /\ clkFell = FALSE
    /\ now = 0
    /\ editMode = FALSE
    /\ lastUpdateEditModeScreen = 0
    /\ editModeBlinkDark = FALSE
    /\ stepperTrackingSpeed = DefaultTrackingSpeed
    /\ homeSpeed = DefaultHomeSpeed
    /\ initialStepperTrackingSpeed = DefaultTrackingSpeed
    /\ initialHomeSpeed = DefaultHomeSpeed
    /\ motorRunning = 0
    /\ currentPageIndex = InitialPage
    /\ \E w1 \in LoadWords, w2 \in LoadWords : eeprom = romOf(<<w1, w2>>)
    /\ stepperSpeed = 0
    /\ last = [op |-> "boot", prevOp |-> "boot", change |-> 0, endLow |-> FALSE, homeLow |-> FALSE,
               renders |-> 0, steps |-> 0, polls |-> 0, writes |-> 0,
               editMode |-> FALSE, page |-> InitialPage, motor |-> 0,
               tracking |-> DefaultTrackingSpeed, home |-> DefaultHomeSpeed,
               initialTracking |-> DefaultTrackingSpeed, initialHome |-> DefaultHomeSpeed,
               speed |-> 0, blinkDark |-> FALSE, lastUpdate |-> 0]

LoadNext == setupHalt \/ setup

SpecLoad == LoadInit /\ [][LoadNext]_vars

-----------------------------------------------------------------------------
(* A save followed by a restart, over working values across [1,1000] *)

\* working values to save: the limits, the defaults, and values around the
\* byte boundaries of the two-byte encoding
SaveValues == {1, 2, 100, 255, 256, 257, 511, 512, 767, 999, 1000}

\* loop() is about to handle a press on SaveConfigPage: the configuration
\* loaded from one of the seeds has been edited to the pair <<t, h>>
SaveInit ==
    /\ pc = "press"
    /\ clkFell = FALSE
    /\ now = 0
    /\ editMode = FALSE
    /\ lastUpdateEditModeScreen = 0
    /\ editModeBlinkDark = FALSE
    /\ motorRunning = 0
    /\ currentPageIndex = DirtyPages
    /\ stepperSpeed = SetupSpeed
    /\ \E seed \in EepromSeeds, t \in SaveValues, h \in SaveValues :
          LET cfg == readSpeedConfigFromEeprom(romOf(seed))
          IN /\ isDirty(t, cfg.initialTracking, h, cfg.initialHome)
             /\ eeprom = romOf(seed)
             /\ stepperTrackingSpeed = t
             /\ homeSpeed = h
             /\ initialStepperTrackingSpeed = cfg.initialTracking
             /\ initialHomeSpeed = cfg.initialHome
             /\ last = [op |-> "poll", prevOp |-> "run", change |-> 0,
                        endLow |-> FALSE, homeLow |-> FALSE,
                        renders |-> 0, steps |-> 0, polls |-> 0, writes |-> 0,
                        editMode |-> FALSE, page |-> DirtyPages, motor |-> 0,
                        tracking |-> t, home |-> h,
                        initialTracking |-> cfg.initialTracking,
                        initialHome |-> cfg.initialHome,
                        speed |-> SetupSpeed, blinkDark |-> FALSE, lastUpdate |-> 0]

\* power is cycled and setup() runs again: the globals take their
\* initializers, the EEPROM keeps its contents, the configuration is loaded
restart ==
    /\ pc = "mode"
    /\ LET cfg == readSpeedConfigFromEeprom(eeprom)
       IN /\ stepperTrackingSpeed' = cfg.tracking
          /\ homeSpeed' = cfg.home
          /\ initialStepperTrackingSpeed' = cfg.initialTracking
          /\ initialHomeSpeed' = cfg.initialHome
    /\ clkFell' = FALSE
    /\ now' = 0
    /\ editMode' = FALSE
    /\ lastUpdateEditModeScreen' = 0
    /\ editModeBlinkDark' = FALSE
    /\ motorRunning' = 0
    /\ currentPageIndex' = InitialPage
    /\ stepperSpeed' = SetupSpeed
    /\ pc' = "poll"
    /\ last' = snapshot("restart", 0, FALSE, FALSE, 1, 0, 0, 0)
    /\ UNCHANGED eeprom

SaveNext == encoderPressed \/ restart

SpecSave == SaveInit /\ [][SaveNext]_vars

-----------------------------------------------------------------------------
(* Properties *)

Dirty == isDirty(stepperTrackingSpeed, initialStepperTrackingSpeed,
                 homeSpeed, initialHomeSpeed)

WasDirty == isDirty(last.tracking, last.initialTracking, last.home, last.initialHome)

InRange(v) == v >= MinSpeed /\ v <= MaxSpeed

\* the step just taken was encoderPressed outside edit mode on page p
PressedOn(p) == last.op = "press" /\ ~last.editMode /\ last.page = p

\* C1: a press outside edit mode on SaveConfigPage (5) leaves the configuration
\* clean and the page inside the 4-page range 1..4, namely on page 1
C1_SaveReclampsPage ==
    PressedOn(5) => (~Dirty /\ currentPageIndex \in 1..CleanPages /\ currentPageIndex = 1)

\* C2: no step takes the motor from Tracking to Homing or from Homing to
\* Tracking: between the two there is always an Idle state
C2_NoDirectReversal ==
    /\ ~(last.motor = 1 /\ motorRunning = -1)
    /\ ~(last.motor = -1 /\ motorRunning = 1)

\* the part of C2 the sketch keeps: no step takes the motor from Homing to
\* Tracking, and only a press outside edit mode on ReturnHomePage (4) takes it
\* from Tracking to Homing
HomingNeverTurnsTracking ==
    /\ last.motor = -1 => motorRunning # 1
    /\ (last.motor = 1 /\ motorRunning = -1) => PressedOn(4)

\* C3: a loop iteration that reaches runTheStepper with the motor Tracking and
\* the end switch active, or Homing and the home switch active, ends with the
\* motor Idle
C3_LimitSwitchStops ==
    last.op = "run" =>
        /\ (last.motor = 1 /\ last.endLow) => motorRunning = 0
        /\ (last.motor = -1 /\ last.homeLow) => motorRunning = 0

\* the iteration had no input event: runTheStepper directly followed the poll
C3_Witness ==
    /\ last.op = "run" /\ last.prevOp = "poll"
    /\ last.motor = -1 /\ last.homeLow /\ ~last.endLow
    /\ motorRunning = 0

\* C4: a press outside edit mode on TrackingSpeedPage or HomeSpeedPage gives
\* editMode and motor Idle, whatever the motor state was
C4_EditEntryStopsMotor ==
    (PressedOn(1) \/ PressedOn(2)) => (editMode /\ motorRunning = 0)

C4_Witness ==
    /\ PressedOn(2) /\ last.motor = -1 /\ editMode /\ motorRunning = 0

\* C5: a step that starts with both working values inside [1,1000] ends with
\* both inside [1,1000], and an edit-mode rotation at a bound leaves the value
\* at the bound
C5_SpeedsStayInRange ==
    /\ (last.op \in {"poll", "press", "rotate", "blink", "run"}
            /\ InRange(last.tracking) /\ InRange(last.home))
         => (InRange(stepperTrackingSpeed) /\ InRange(homeSpeed))
    /\ (last.op = "rotate" /\ last.editMode /\ last.page = 1) =>
         /\ (last.tracking = MaxSpeed /\ last.change = 1) => stepperTrackingSpeed = MaxSpeed
         /\ (last.tracking = MinSpeed /\ last.change = -1) => stepperTrackingSpeed = MinSpeed
    /\ (last.op = "rotate" /\ last.editMode /\ last.page = 2) =>
         /\ (last.home = MaxSpeed /\ last.change = 1) => homeSpeed = MaxSpeed
         /\ (last.home = MinSpeed /\ last.change = -1) => homeSpeed = MinSpeed

C5_Witness ==
    /\ last.op = "rotate" /\ last.editMode /\ last.page = 1
    /\ last.tracking = MaxSpeed /\ last.change = 1 /\ InRange(last.home)
    /\ stepperTrackingSpeed = MaxSpeed

\* C6: right after save both saved values equal their working values, so the
\* configuration is clean (the dirty test being that a working value differs
\* from its saved value)
C6_SaveIsAtomic ==
    PressedOn(5) =>
        /\ initialStepperTrackingSpeed = stepperTrackingSpeed
        /\ initialHomeSpeed = homeSpeed
        /\ ~Dirty

C6_Witness ==
    /\ PressedOn(5)
    /\ last.tracking # last.initialTracking /\ last.home # last.initialHome
    /\ ~Dirty

\* C7: a rotation outside edit mode from a page in 1..pageCount (4 when clean,
\* 5 when dirty, at the moment of the rotation) moves the page circularly
\* inside 1..pageCount by the direction
C7_PageCyclesInRange ==
    LET pageCount == IF WasDirty THEN 5 ELSE 4
    IN (last.op = "rotate" /\ ~last.editMode /\ last.page \in 1..pageCount) =>
          currentPageIndex = ((last.page - 1 + last.change) % pageCount) + 1

C7_Witness ==
    /\ last.op = "rotate" /\ ~last.editMode /\ WasDirty
    /\ last.page = 1 /\ last.change = -1 /\ currentPageIndex = 5

\* C8: editMode implies the page is TrackingSpeedPage (1) or HomeSpeedPage (2)
C8_EditOnlyOnSpeedPages ==
    editMode => currentPageIndex \in {1, 2}

C8_Witness ==
    /\ editMode /\ currentPageIndex = 2 /\ last.op = "rotate"

\* C9: a press outside edit mode on StartStopPage (3) takes the motor from Idle
\* to Tracking and from Tracking to Idle
C9_StartStopToggles ==
    PressedOn(3) =>
        /\ last.motor = 0 => motorRunning = 1
        /\ last.motor = 1 => motorRunning = 0

C9_Witness ==
    /\ PressedOn(3) /\ last.motor = 1 /\ motorRunning = 0

\* C10: with the working values in [1,1000], while the motor is Tracking the
\* speed last given to the stepper is +trackingSpeed, and while it is Homing
\* it is -homeSpeed
C10_CommandedSpeedMatches ==
    (InRange(stepperTrackingSpeed) /\ InRange(homeSpeed)) =>
        /\ motorRunning = 1 => stepperSpeed = stepperTrackingSpeed
        /\ motorRunning = -1 => stepperSpeed = -homeSpeed

C10_Witness ==
    /\ motorRunning = -1 /\ stepperSpeed = -homeSpeed
    /\ homeSpeed # initialHomeSpeed /\ InRange(homeSpeed) /\ InRange(stepperTrackingSpeed)
    /\ last.op = "run"

\* the words the EEPROM holds (setup does not write it)
StoredTracking == readWord(eeprom, stepper_speed_address)

StoredHome == readWord(eeprom, home_speed_address)

\* C11: load is all-or-nothing: if at least one stored word is the erase word
\* 0xFFFF both working values are the defaults (1 and 100), and after load of
\* any stored pair the configuration is clean
C11_LoadAllOrNothing ==
    last.op = "setup" =>
        /\ (StoredTracking = 65535 \/ StoredHome = 65535) =>
              (stepperTrackingSpeed = 1 /\ homeSpeed = 100)
        /\ initialStepperTrackingSpeed = stepperTrackingSpeed
        /\ initialHomeSpeed = homeSpeed
        /\ ~Dirty

C11_Witness ==
    /\ last.op = "setup" /\ StoredTracking = 65535 /\ StoredHome = 1000
    /\ stepperTrackingSpeed = 1 /\ homeSpeed = 100 /\ ~Dirty

\* C12: after load of any pair of stored words both working values are
\* inside [1,1000]
C12_LoadedInRange ==
    last.op = "setup" => (InRange(stepperTrackingSpeed) /\ InRange(homeSpeed))

\* the step just taken flipped the blink phase
Flipped == editModeBlinkDark # last.blinkDark

\* C13: the blink phase flips only in the blink check of an iteration with
\* editMode true and at least 300 ms after the recorded last flip; the flip
\* records its time, and the record changes only at a flip, so two consecutive
\* flips are at least 300 ms apart
C13_BlinkOnlyWhenDue ==
    /\ Flipped =>
          /\ last.op = "blink" /\ last.editMode
          /\ now - last.lastUpdate >= 300
          /\ lastUpdateEditModeScreen = now
    /\ lastUpdateEditModeScreen # last.lastUpdate => Flipped

\* the second flip of a run, 300 ms after the first
C13_Witness ==
    /\ Flipped /\ last.op = "blink" /\ last.lastUpdate = 300 /\ now = 600

\* C14: a press outside edit mode on TrackingSpeedPage or HomeSpeedPage resets
\* the blink: right after it editModeBlinkDark is false and the blink timer
\* starts at the moment of entry
C14_EditEntryResetsBlink ==
    (PressedOn(1) \/ PressedOn(2)) =>
        (~editModeBlinkDark /\ lastUpdateEditModeScreen = now)

\* C15: a stepping call is issued only by runTheStepper, at most once per
\* step, and only with the motor Tracking or Homing and the limit switch of
\* that direction inactive; with the motor Idle none is issued
C15_StepsOnlyWhileRunning ==
    /\ last.steps \in {0, 1}
    /\ last.steps = 1 =>
          /\ last.op = "run"
          /\ \/ (last.motor = 1 /\ ~last.endLow)
             \/ (last.motor = -1 /\ ~last.homeLow)
    /\ (last.op = "run" /\ last.motor = 0) => last.steps = 0

\* the motor was sent home, is Idle again, and the iteration issues no step
C15_Witness ==
    /\ last.op = "run" /\ last.motor = 0 /\ last.steps = 0
    /\ stepperSpeed = -homeSpeed /\ motorRunning = 0

\* C16: an iteration that reaches runTheStepper with the motor Tracking or
\* Homing and the limit switch of that direction inactive issues exactly one
\* stepping call (none in the handlers before it); an iteration in edit mode
\* issues no stepping call and polls no limit switch
C16_OneStepPerRunningIteration ==
    /\ (last.op = "run" /\ last.motor = 1 /\ ~last.endLow) => last.steps = 1
    /\ (last.op = "run" /\ last.motor = -1 /\ ~last.homeLow) => last.steps = 1
    /\ last.op \in {"poll", "press", "rotate"} => (last.steps = 0 /\ last.polls = 0)
    /\ last.op = "blink" => (last.editMode /\ last.steps = 0 /\ last.polls = 0)
    /\ last.op = "run" => ~last.editMode

C16_Witness ==
    /\ last.op = "run" /\ last.motor = 1 /\ ~last.endLow /\ last.steps = 1
    /\ motorRunning = 1

\* a speed value adjusted by one step and kept inside [1,1000]
Adjusted(v, c) == IF v + c < 1 THEN 1 ELSE IF v + c > 1000 THEN 1000 ELSE v + c

\* the page reached from page p of n pages by one step of direction c
Cycled(p, c, n) == ((p - 1 + c) % n) + 1

\* C17: when one iteration carries a press and a rotation, the rotation is
\* handled after the press, against the state the press left: from outside
\* edit mode on a speed page the result is edit mode with that page's value
\* adjusted and the page unchanged; from edit mode the result is no edit mode,
\* the page advanced and both values unchanged
C17_PressBeforeRotate ==
    [][ (pc = "rotate" /\ last.op = "press") =>
          /\ (~last.editMode /\ last.page = 1) =>
                /\ editMode' /\ currentPageIndex' = 1
                /\ stepperTrackingSpeed' = Adjusted(last.tracking, last'.change)
                /\ homeSpeed' = last.home
          /\ (~last.editMode /\ last.page = 2) =>
                /\ editMode' /\ currentPageIndex' = 2
                /\ homeSpeed' = Adjusted(last.home, last'.change)
                /\ stepperTrackingSpeed' = last.tracking
          /\ last.editMode =>
                /\ ~editMode'
                /\ currentPageIndex' = Cycled(last.page, last'.change,
                                              IF WasDirty THEN 5 ELSE 4)
                /\ stepperTrackingSpeed' = last.tracking
                /\ homeSpeed' = last.home
      ]_vars

\* a rotation handled right after the press that entered edit mode on page 1
C17_Witness ==
    /\ last.op = "rotate" /\ last.prevOp = "press"
    /\ last.editMode /\ editMode /\ last.page = 1 /\ currentPageIndex = 1
    /\ last.change = 1 /\ stepperTrackingSpeed = last.tracking + 1

\* the step just taken belongs to loop()
LoopStep == last.op \in {"poll", "press", "rotate", "blink", "run"}

\* C18: in loop() the working values change only in a rotation handled in edit
\* mode, and then only the field of the current page, by the clamped
\* direction; the saved values change only in the save from SaveConfigPage
C18_ValuesChangeOnlyByEditAndSave ==
    LoopStep =>
        /\ (stepperTrackingSpeed # last.tracking \/ homeSpeed # last.home) =>
              /\ last.op = "rotate" /\ last.editMode
              /\ \/ /\ last.page = 1
                    /\ stepperTrackingSpeed = Adjusted(last.tracking, last.change)
                    /\ homeSpeed = last.home
                 \/ /\ last.page = 2
                    /\ homeSpeed = Adjusted(last.home, last.change)
                    /\ stepperTrackingSpeed = last.tracking
        /\ (last.op = "rotate" /\ last.editMode /\ last.page = 1) =>
              stepperTrackingSpeed = Adjusted(last.tracking, last.change)
        /\ (last.op = "rotate" /\ last.editMode /\ last.page = 2) =>
              homeSpeed = Adjusted(last.home, last.change)
        /\ (initialStepperTrackingSpeed # last.initialTracking
               \/ initialHomeSpeed # last.initialHome) => PressedOn(5)

C18_Witness ==
    /\ last.op = "rotate" /\ last.editMode /\ last.page = 2
    /\ homeSpeed = last.home - 1 /\ stepperTrackingSpeed = last.tracking

\* C19: every press and every rotation handled issues exactly one render
\* request, and every limit-switch stop and every blink flip issues one
C19_RenderAfterEveryChange ==
    /\ last.op \in {"press", "rotate"} => last.renders = 1
    /\ (last.op = "run" /\ last.motor # 0 /\ motorRunning = 0) => last.renders = 1
    /\ Flipped => last.renders = 1

C19_Witness ==
    /\ last.op = "run" /\ last.motor = 1 /\ motorRunning = 0 /\ last.renders = 1

\* C20: when the display fails to start, setup halts: the configuration is
\* not loaded, nothing is written, no speed is given to the stepper, and no
\* step ever follows the halt
C20_DisplayFailureHalts ==
    /\ pc = "halted" =>
          /\ last.op = "halt" /\ last.prevOp = "boot"
          /\ stepperTrackingSpeed = 1 /\ homeSpeed = 100
          /\ initialStepperTrackingSpeed = 1 /\ initialHomeSpeed = 100
          /\ stepperSpeed = 0 /\ motorRunning = 0
          /\ last.writes = 0 /\ last.steps = 0 /\ last.renders = 0
          /\ ~editMode /\ currentPageIndex = 3
    /\ last.prevOp # "halt"
    /\ last.op = "halt" => pc = "halted"

\* halted over an EEPROM that holds a stored configuration
C20_Witness ==
    /\ pc = "halted" /\ StoredTracking = 1000 /\ StoredHome = 1
    /\ stepperTrackingSpeed = 1 /\ homeSpeed = 100

\* C21: SaveConfigPage (5) is the current page only while the configuration is
\* dirty, and the EEPROM is written only by a save that found it dirty
C21_SavePageOnlyWhenDirty ==
    /\ currentPageIndex = 5 => Dirty
    /\ last.writes > 0 => (PressedOn(5) /\ WasDirty)

\* a save was invoked from page 5 over a dirty configuration
C21_Witness ==
    /\ PressedOn(5) /\ last.writes = 4 /\ WasDirty /\ ~Dirty

\* C22: while editMode is true the motor is idle, at every point of the loop
C22_EditModeImpliesIdle ==
    /\ editMode => motorRunning = 0
    /\ (last.op \in {"press", "rotate", "blink"} /\ last.editMode) => motorRunning = 0

\* the blink check runs in edit mode after the motor had been homing
C22_Witness ==
    /\ editMode /\ last.op = "blink" /\ motorRunning = 0 /\ stepperSpeed < 0

C24_OtherSwitchIgnored ==
    /\ (last.op = "run" /\ last.motor = 1 /\ last.homeLow /\ ~last.endLow) =>
          (motorRunning = 1 /\ last.steps = 1)
    /\ (last.op = "run" /\ last.motor = -1 /\ last.endLow /\ ~last.homeLow) =>
          (motorRunning = -1 /\ last.steps = 1)

\* tracking away from the home position: home switch active, a step issued
C24_Witness ==
    /\ last.op = "run" /\ last.motor = 1 /\ last.homeLow /\ ~last.endLow
    /\ motorRunning = 1 /\ last.steps = 1

\* C25: a press on StartStopPage while Homing stops the motor, and a press
\* on ReturnHomePage while Homing leaves it Homing
C25_HomingPresses ==
    /\ (PressedOn(3) /\ last.motor = -1) => motorRunning = 0
    /\ (PressedOn(4) /\ last.motor = -1) => motorRunning = -1

C25_Witness ==
    /\ PressedOn(3) /\ last.motor = -1 /\ motorRunning = 0

\* C26: a rotation leaves the motor state, the commanded speed and editMode
\* as they were; a press handled in edit mode changes editMode to false and
\* nothing else
C26_RotateAndExitFrame ==
    /\ last.op = "rotate" =>
          /\ motorRunning = last.motor
          /\ stepperSpeed = last.speed
          /\ editMode = last.editMode
    /\ (last.op = "press" /\ last.editMode) =>
          /\ ~editMode
          /\ currentPageIndex = last.page
          /\ stepperTrackingSpeed = last.tracking /\ homeSpeed = last.home
          /\ initialStepperTrackingSpeed = last.initialTracking
          /\ initialHomeSpeed = last.initialHome
          /\ motorRunning = last.motor /\ stepperSpeed = last.speed
          /\ last.writes = 0

\* the menu was turned while the motor was homing
C26_Witness ==
    /\ last.op = "rotate" /\ ~last.editMode /\ last.motor = -1 /\ motorRunning = -1
    /\ currentPageIndex # last.page

\* C27: a save writes each value as two bytes, high byte first, and the load
\* of a restart reads back the pair that was saved: the working values are
\* the saved pair, the configuration is clean, and neither stored word is
\* the erase word 0xFFFF
C27_SaveLoadRoundTrip ==
    /\ PressedOn(5) =>
          /\ eeprom[0] = last.tracking \div 256 /\ eeprom[1] = last.tracking % 256
          /\ eeprom[2] = last.home \div 256 /\ eeprom[3] = last.home % 256
    /\ last.op = "restart" =>
          /\ stepperTrackingSpeed = last.tracking /\ homeSpeed = last.home
          /\ initialStepperTrackingSpeed = last.tracking
          /\ initialHomeSpeed = last.home
          /\ ~Dirty
          /\ StoredTracking # 65535 /\ StoredHome # 65535

\* the pair <<256, 1000>> read back after the restart
C27_Witness ==
    /\ last.op = "restart" /\ last.prevOp = "press"
    /\ stepperTrackingSpeed = 256 /\ homeSpeed = 1000
    /\ last.tracking = 256 /\ last.home = 1000

====
